---- MODULE Spec2Model ----
(***************************************************************************)
(* A model of the ledger of donaltran/Blockchain: Transaction and Block    *)
(* (src/block.py) and the Blockchain class (src/src/blockchain.py).        *)
(*                                                                         *)
(* SHA-256 is modelled as a collision-free hash: a digest is the record    *)
(* [lz, body], where body is the hashed content itself (two digests are    *)
(* equal exactly when their contents are) and lz is the number of leading  *)
(* '0' characters of the hex string, a deterministic function of the       *)
(* content, counted up to MaxDifficulty.                                   *)
(***************************************************************************)
EXTENDS Integers, Sequences, FiniteSets, TLC

\* ------------------------------------------------------------------ bounds
MaxDifficulty == 2      \* difficulties 0..MaxDifficulty; leading zeros counted to here
MaxChain == 2           \* the chain is not grown beyond this many blocks
MaxTx == 2              \* add_transaction is not called once this many were accepted
MaxLedgerOps == 3       \* a Ledger that only adds and mines: accepted adds plus mined blocks
MaxSeq == 6             \* the longest transaction list handed to a pure function

\* ------------------------------------------------------------------ inputs
Reserved == {"GENESIS", "MINING_REWARD"}
Users == {"", "alice"}
Recipients == {"", "alice", "bob"}
Amounts == {-1, 0, 1}
\* the (sender, recipient, amount) of the transactions callers submit
TxInputs == (Users \X Recipients \X Amounts) \cup (Reserved \X {"alice"} \X {0, 1})
Rewards == {1}
Miners == {"alice", "bob"}
Times == {1, 2}
Difficulties == 0..MaxDifficulty
NoSignature == "None"

VARIABLES
    chain,                  \* Blockchain.chain
    pending_transactions,   \* Blockchain.pending_transactions
    difficulty,             \* Blockchain.difficulty
    mining_reward,          \* Blockchain.mining_reward
    clock,                  \* what time.time() returns: the clock's tick spans the run
    pc,                     \* where the caller is: "idle", or inside mine_pending_transactions
    new_block,              \* the local new_block of mine_pending_transactions
    last,                   \* the last completed call: its name and return value
    entry,                  \* the chain and the pool when the last call was entered
    accepted,               \* the calls of add_transaction that returned True, in order
    arg                     \* the argument of a call of a pure function of block.py

vars == <<chain, pending_transactions, difficulty, mining_reward, clock, pc, new_block,
          last, entry, accepted, arg>>

\* ------------------------------------------------------------------ hashing
\* hashlib.sha256(s).hexdigest(): body is the content s, lz its leading zeros.
Sha256(body, digest) == [lz |-> digest % (MaxDifficulty + 1), body |-> body]

\* str.startswith('0' * d) and hash[:d] == '0' * d, for 0 <= d <= MaxDifficulty.
StartsWithZeros(h, d) == h.lz >= d

AddrCode(a) ==
    CASE a = "" -> 0
      [] a = "GENESIS" -> 1
      [] a = "MINING_REWARD" -> 2
      [] a = "alice" -> 3
      [] a = "bob" -> 4
      [] OTHER -> 5

\* ------------------------------------------------------------------ Transaction
\* Transaction.__init__: timestamp 0 stands for an omitted (or zero) timestamp.
Transaction(sender, recipient, amount, timestamp, now) ==
    [sender |-> sender, recipient |-> recipient, amount |-> amount,
     timestamp |-> IF timestamp = 0 THEN now ELSE timestamp,
     signature |-> NoSignature]

\* Transaction.calculate_hash
calculate_hash(tx) ==
    Sha256(<<"tx", tx.sender, tx.recipient, tx.amount, tx.timestamp, tx.signature>>,
           AddrCode(tx.sender) + 2 * AddrCode(tx.recipient) + tx.amount + tx.timestamp + 1)

\* ------------------------------------------------------------------ Block
\* mutant of PadLevel: an odd level is padded with its first hash
PadLevel_with_first(hs) == IF Len(hs) % 2 # 0 THEN Append(hs, hs[1]) ELSE hs

\* one level of the Merkle tree: duplicate the last hash of an odd level, then pair
PadLevel(hs) == IF Len(hs) % 2 # 0 THEN Append(hs, hs[Len(hs)]) ELSE hs

PairLevel(hs) ==
    [i \in 1..(Len(hs) \div 2) |->
        Sha256(<<"cat", hs[2 * i - 1], hs[2 * i]>>, hs[2 * i - 1].lz + 2 * hs[2 * i].lz + 1)]

RECURSIVE MerkleReduce(_)
MerkleReduce(hs) == IF Len(hs) > 1 THEN MerkleReduce(PairLevel(PadLevel(hs))) ELSE hs[1]

\* Block.calculate_merkle_root
calculate_merkle_root(transactions) ==
    IF Len(transactions) = 0
    THEN Sha256(<<"empty">>, 0)
    ELSE MerkleReduce([i \in 1..Len(transactions) |-> calculate_hash(transactions[i])])

\* Block.hash_block: difficulty and hash are not part of the hashed data
hash_block(b) ==
    Sha256(<<"block", b.index, b.timestamp, b.transactions, b.previous_hash, b.nonce,
             b.merkle_root>>,
           b.index + b.timestamp + Len(b.transactions) + b.previous_hash.lz
             + b.merkle_root.lz + b.nonce)

\* Block.__init__
Block(index, timestamp, transactions, previous_hash, nonce, blk_difficulty) ==
    LET b0 == [index |-> index, timestamp |-> timestamp, transactions |-> transactions,
               previous_hash |-> previous_hash, nonce |-> nonce,
               difficulty |-> blk_difficulty,
               merkle_root |-> calculate_merkle_root(transactions)]
    IN  [index |-> b0.index, timestamp |-> b0.timestamp, transactions |-> b0.transactions,
         previous_hash |-> b0.previous_hash, nonce |-> b0.nonce,
         difficulty |-> b0.difficulty, merkle_root |-> b0.merkle_root,
         hash |-> hash_block(b0)]

\* mutant of MineLoopCond: the prefix compared is one character short
MineLoopCond_short_prefix(b, d) == ~StartsWithZeros(b.hash, d - 1)

\* the loop condition of Block.mine_block
MineLoopCond(b, d) == ~StartsWithZeros(b.hash, d)

\* the loop body of Block.mine_block
MineLoopBody(b) ==
    LET b1 == [b EXCEPT !.nonce = @ + 1]
    IN  [b1 EXCEPT !.hash = hash_block(b1)]

\* Block.mine_block run to completion (as a peer runs it on its own blocks)
RECURSIVE mine_block(_, _)
mine_block(b, d) == IF MineLoopCond(b, d) THEN mine_block(MineLoopBody(b), d) ELSE b

\* Block.is_valid without a predecessor: hash, Merkle root, the block's own difficulty
is_valid_alone(b) ==
    /\ b.hash = hash_block(b)
    /\ b.merkle_root = calculate_merkle_root(b.transactions)
    /\ StartsWithZeros(b.hash, b.difficulty)

\* mutant of is_valid: the previous_hash comparison is left out
is_valid_no_link(b, previous_block) ==
    /\ is_valid_alone(b)
    /\ b.index = previous_block.index + 1

\* mutant of is_valid: the Merkle root is not recomputed
is_valid_no_merkle(b, previous_block) ==
    /\ b.hash = hash_block(b)
    /\ StartsWithZeros(b.hash, b.difficulty)
    /\ b.previous_hash = previous_block.hash
    /\ b.index = previous_block.index + 1

\* Block.is_valid with a predecessor (a Block object is always truthy)
is_valid(b, previous_block) ==
    /\ is_valid_alone(b)
    /\ b.previous_hash = previous_block.hash
    /\ b.index = previous_block.index + 1

\* the previous_hash "0" of a genesis block
ZeroHash == [lz |-> 1, body |-> <<"0">>]

\* Transaction.to_dict
TransactionToDict(tx) ==
    [sender |-> tx.sender, recipient |-> tx.recipient, amount |-> tx.amount,
     timestamp |-> tx.timestamp, signature |-> tx.signature]

\* Block.to_dict
to_dict(b) ==
    [index |-> b.index, timestamp |-> b.timestamp,
     transactions |-> [i \in 1..Len(b.transactions) |-> TransactionToDict(b.transactions[i])],
     previous_hash |-> b.previous_hash, nonce |-> b.nonce, merkle_root |-> b.merkle_root,
     hash |-> b.hash, difficulty |-> b.difficulty]

\* Transaction(**tx_data), called when the clock reads now; signature is passed on
TransactionFromDict(tx_data, now) ==
    [Transaction(tx_data.sender, tx_data.recipient, tx_data.amount, tx_data.timestamp, now)
        EXCEPT !.signature = tx_data.signature]

\* Block.from_dict, called when the clock reads now: merkle_root and hash of the
\* dictionary are not used, the constructor computes them
from_dict(block_dict, now) ==
    Block(block_dict.index, block_dict.timestamp,
          [i \in 1..Len(block_dict.transactions) |->
              TransactionFromDict(block_dict.transactions[i], now)],
          block_dict.previous_hash, block_dict.nonce, block_dict.difficulty)

\* ------------------------------------------------------------------ Blockchain
RECURSIVE BlockFold(_, _, _)
\* the inner loop of get_balance over one block's transactions, from position i
BlockFold(txs, i, address) ==
    IF i > Len(txs) THEN 0
    ELSE (IF txs[i].recipient = address THEN txs[i].amount ELSE 0)
         - (IF txs[i].sender = address THEN txs[i].amount ELSE 0)
         + BlockFold(txs, i + 1, address)

RECURSIVE ChainFold_skips_last(_, _, _)
\* mutant of ChainFold: the loop over the blocks stops before the last block
ChainFold_skips_last(c, i, address) ==
    IF i > Len(c) - 1 THEN 0
    ELSE BlockFold(c[i].transactions, 1, address) + ChainFold_skips_last(c, i + 1, address)

RECURSIVE ChainFold(_, _, _)
\* the outer loop of get_balance over the blocks, from position i
ChainFold(c, i, address) ==
    IF i > Len(c) THEN 0
    ELSE BlockFold(c[i].transactions, 1, address) + ChainFold(c, i + 1, address)

RECURSIVE PendingFold_with_credits(_, _, _)
\* mutant of PendingFold: pending credits to the address are counted as well
PendingFold_with_credits(txs, i, address) ==
    IF i > Len(txs) THEN 0
    ELSE (IF txs[i].sender = address THEN txs[i].amount ELSE 0)
         - (IF txs[i].recipient = address THEN txs[i].amount ELSE 0)
         + PendingFold_with_credits(txs, i + 1, address)

RECURSIVE PendingFold(_, _, _)
\* the loop of get_balance over the pending transactions: sender debits only
PendingFold(txs, i, address) ==
    IF i > Len(txs) THEN 0
    ELSE (IF txs[i].sender = address THEN txs[i].amount ELSE 0)
         + PendingFold(txs, i + 1, address)

\* Blockchain.get_balance
get_balance(address) ==
    ChainFold(chain, 1, address) - PendingFold(pending_transactions, 1, address)

\* mutant of is_valid_transaction: sending to oneself is not refused
is_valid_transaction_self_send(tx) ==
    IF tx.sender \in {"GENESIS", "MINING_REWARD"} THEN TRUE
    ELSE IF tx.amount <= 0 THEN FALSE
    ELSE IF tx.sender = "" \/ tx.recipient = "" THEN FALSE
    ELSE TRUE

\* Blockchain.is_valid_transaction
is_valid_transaction(tx) ==
    IF tx.sender \in {"GENESIS", "MINING_REWARD"} THEN TRUE
    ELSE IF tx.amount <= 0 THEN FALSE
    ELSE IF tx.sender = "" \/ tx.recipient = "" THEN FALSE
    ELSE IF tx.sender = tx.recipient THEN FALSE
    ELSE TRUE

\* the balance check of Blockchain.add_transaction: skipped for "MINING_REWARD" only
HasSufficientBalance(tx) ==
    tx.sender # "MINING_REWARD" => ~(get_balance(tx.sender) < tx.amount)

\* mutant of is_chain_valid: the loop stops one block short
is_chain_valid_stops_short(c) ==
    /\ Len(c) # 0
    /\ \A i \in 2..(Len(c) - 1) : is_valid(c[i], c[i - 1])

\* Blockchain.is_chain_valid on the chain c: the block at position 1 is never checked
is_chain_valid(c) ==
    /\ Len(c) # 0
    /\ \A i \in 2..Len(c) : is_valid(c[i], c[i - 1])

\* Blockchain.get_latest_block
get_latest_block == chain[Len(chain)]

\* Blockchain.create_genesis_block, with the two readings t1, t2 of time.time()
create_genesis_block(d, t1, t2) ==
    Block(0, t2, <<Transaction("GENESIS", "GENESIS", 0, t1, t1)>>, ZeroHash, 0, d)

\* ------------------------------------------------------------------ candidate chains
\* What a peer hands to replace_chain: chains it built with Block(...) and mine_block,
\* some of them honest, some with one defect in the last block.
Styles == {"mined", "easy", "unmined", "badlink", "badindex", "tampered", "badmerkle"}

PeerTx(t) == Transaction("MINING_REWARD", "bob", 1, 0, t)

PeerBlock(prev, style, d, t) ==
    CASE style = "mined" ->
            mine_block(Block(prev.index + 1, t, <<PeerTx(t)>>, prev.hash, 0, d), d)
      [] style = "easy" ->
            Block(prev.index + 1, t, <<PeerTx(t)>>, prev.hash, 0, 0)
      [] style = "unmined" ->
            Block(prev.index + 1, t, <<PeerTx(t)>>, prev.hash, 0, d)
      [] style = "badlink" ->
            mine_block(Block(prev.index + 1, t, <<PeerTx(t)>>, ZeroHash, 0, d), d)
      [] style = "badindex" ->
            mine_block(Block(prev.index + 2, t, <<PeerTx(t)>>, prev.hash, 0, d), d)
      [] style = "tampered" ->
            [mine_block(Block(prev.index + 1, t, <<PeerTx(t)>>, prev.hash, 0, d), d)
                EXCEPT !.transactions[1].amount = @ + 1]
      [] style = "badmerkle" ->
            LET b == Block(prev.index + 1, t, <<PeerTx(t)>>, prev.hash, 0, d)
                b1 == [b EXCEPT !.merkle_root = calculate_merkle_root(<<>>)]
            IN  mine_block([b1 EXCEPT !.hash = hash_block(b1)], d)

RECURSIVE Extend(_, _, _, _, _)
\* base followed by k peer blocks; the last one has the given style
Extend(base, k, style, d, t) ==
    IF k = 0 THEN base
    ELSE Extend(Append(base, PeerBlock(base[Len(base)], IF k = 1 THEN style ELSE "mined", d, t)),
                k - 1, style, d, t)

\* a genesis block of a peer whose index is not 0
AltGenesis(d, t) ==
    Block(1, t, <<Transaction("GENESIS", "GENESIS", 0, t, t)>>, ZeroHash, 0, d)

\* the candidates: the empty list, the prefixes of the chain (not longer), and chains
\* one block longer than the chain, grown from the chain or from a peer's own genesis
Candidates(t) ==
    {<<>>}
    \cup {SubSeq(chain, 1, n) : n \in 1..Len(chain)}
    \cup (IF Len(chain) < MaxChain
          THEN {Extend(chain, 1, style, difficulty, t) : style \in Styles}
               \cup {Extend(<<AltGenesis(difficulty, t)>>, Len(chain), "mined", difficulty, t)}
          ELSE {})

\* ------------------------------------------------------------------ the state machine
\* Blockchain.__init__
Init ==
    \E d \in Difficulties, r \in Rewards, t1 \in Times, t2 \in Times :
        /\ t1 = t2
        /\ difficulty = d
        /\ mining_reward = r
        /\ pending_transactions = <<>>
        /\ chain = <<create_genesis_block(d, t1, t2)>>
        /\ clock = t2
        /\ pc = "idle"
        /\ new_block = create_genesis_block(d, t1, t2)
        /\ last = [op |-> "init", ret |-> TRUE]
        /\ entry = [chain |-> <<>>, pool |-> <<>>, address |-> ""]
        /\ accepted = <<>>
        /\ arg = <<>>

RECURSIVE SubmittedInChain(_, _)
\* the transactions of the blocks of c from position i on, the first of each block apart
SubmittedInChain(c, i) ==
    IF i > Len(c) THEN 0 ELSE Len(c[i].transactions) - 1 + SubmittedInChain(c, i + 1)

\* Blockchain.add_transaction(transaction)
add_transaction(transaction) ==
    /\ IF ~is_valid_transaction(transaction)
       THEN /\ last' = [op |-> "add_transaction", ret |-> FALSE]
            /\ UNCHANGED <<pending_transactions, accepted>>
       ELSE IF ~HasSufficientBalance(transaction)
       THEN /\ last' = [op |-> "add_transaction", ret |-> FALSE]
            /\ UNCHANGED <<pending_transactions, accepted>>
       ELSE /\ pending_transactions' = Append(pending_transactions, transaction)
            /\ last' = [op |-> "add_transaction", ret |-> TRUE]
            /\ accepted' = Append(accepted, [tx |-> transaction, pc |-> pc])
    /\ entry' = [chain |-> chain, pool |-> pending_transactions, address |-> ""]
    /\ UNCHANGED <<chain, difficulty, mining_reward, pc, new_block, arg>>

\* the single caller builds a Transaction (reading the time) and submits it
AddTransaction ==
    /\ pc = "idle"
    /\ Len(pending_transactions) + SubmittedInChain(chain, 1) < MaxTx
    /\ UNCHANGED clock
    /\ \E i \in TxInputs, now \in {clock} :
          add_transaction(Transaction(i[1], i[2], i[3], 0, now))

\* mutant of MineStart: the block is built from the reward transaction alone
MineStart_ignores_pool(mining_reward_address, t1, t2) ==
    /\ pc = "idle"
    /\ new_block' = Block(Len(chain), t2,
                          <<Transaction("MINING_REWARD", mining_reward_address,
                                        mining_reward, t1, t1)>>,
                          get_latest_block.hash, 0, difficulty)
    /\ UNCHANGED clock
    /\ pc' = "mine_block"
    /\ entry' = [chain |-> chain, pool |-> pending_transactions,
                 address |-> mining_reward_address]
    /\ UNCHANGED <<chain, pending_transactions, difficulty, mining_reward, last, accepted, arg>>

\* mutant of MineStart: the reward transaction is put after the pool
MineStart_reward_last(mining_reward_address, t1, t2) ==
    /\ pc = "idle"
    /\ new_block' = Block(Len(chain), t2,
                          pending_transactions
                            \o <<Transaction("MINING_REWARD", mining_reward_address,
                                             mining_reward, t1, t1)>>,
                          chain[Len(chain)].hash, 0, difficulty)
    /\ UNCHANGED clock
    /\ pc' = "mine_block"
    /\ entry' = [chain |-> chain, pool |-> pending_transactions,
                 address |-> mining_reward_address]
    /\ UNCHANGED <<chain, pending_transactions, difficulty, mining_reward, last, accepted, arg>>

\* mine_pending_transactions up to the call of new_block.mine_block: the reward
\* transaction and the block are built from the pool as it is now
MineStart(mining_reward_address, t1, t2) ==
    /\ pc = "idle"
    /\ new_block' = Block(Len(chain), t2,
                          <<Transaction("MINING_REWARD", mining_reward_address,
                                        mining_reward, t1, t1)>>
                            \o pending_transactions,
                          get_latest_block.hash, 0, difficulty)
    /\ UNCHANGED clock
    /\ pc' = "mine_block"
    /\ entry' = [chain |-> chain, pool |-> pending_transactions,
                 address |-> mining_reward_address]
    /\ UNCHANGED <<chain, pending_transactions, difficulty, mining_reward, last, accepted, arg>>

\* one iteration of the loop of new_block.mine_block(self.difficulty)
MineStep ==
    /\ pc = "mine_block"
    /\ MineLoopCond(new_block, difficulty)
    /\ new_block' = MineLoopBody(new_block)
    /\ UNCHANGED <<chain, pending_transactions, difficulty, mining_reward, clock, pc, last, entry,
                   accepted, arg>>

\* mutant of MineReturn: mine_block returns without having searched
MineReturn_early ==
    /\ pc = "mine_block"
    /\ pc' = "append"
    /\ UNCHANGED <<chain, pending_transactions, difficulty, mining_reward, clock, new_block, last, entry,
                   accepted, arg>>

\* the loop of mine_block ends and mine_block returns
MineReturn ==
    /\ pc = "mine_block"
    /\ ~MineLoopCond(new_block, difficulty)
    /\ pc' = "append"
    /\ UNCHANGED <<chain, pending_transactions, difficulty, mining_reward, clock, new_block, last, entry,
                   accepted, arg>>

\* mutant of MineAppend: the block is inserted at the front of the chain
MineAppend_at_front ==
    /\ pc = "append"
    /\ chain' = <<new_block>> \o chain
    /\ pc' = "clear"
    /\ UNCHANGED <<pending_transactions, difficulty, mining_reward, clock, new_block, last, entry,
                   accepted, arg>>

\* self.chain.append(new_block)
MineAppend ==
    /\ pc = "append"
    /\ chain' = Append(chain, new_block)
    /\ pc' = "clear"
    /\ UNCHANGED <<pending_transactions, difficulty, mining_reward, clock, new_block, last, entry,
                   accepted, arg>>

\* mutant of MineClear: the pool is not emptied
MineClear_keeps_pool ==
    /\ pc = "clear"
    /\ pc' = "idle"
    /\ last' = [op |-> "mine_pending_transactions", ret |-> new_block]
    /\ UNCHANGED <<chain, pending_transactions, difficulty, mining_reward, clock, new_block,
                   entry, accepted, arg>>

\* self.pending_transactions = []; return new_block
MineClear ==
    /\ pc = "clear"
    /\ pending_transactions' = <<>>
    /\ pc' = "idle"
    /\ last' = [op |-> "mine_pending_transactions", ret |-> new_block]
    /\ UNCHANGED <<chain, difficulty, mining_reward, clock, new_block, entry, accepted, arg>>

MinePendingTransactions ==
    \/ /\ Len(chain) < MaxChain
       /\ \E addr \in Miners, t1 \in {clock}, t2 \in {clock} :
            MineStart(addr, t1, t2)
    \/ MineStep
    \/ MineReturn
    \/ MineAppend
    \/ MineClear

\* mutant of replace_chain: an accepted replacement also empties the pool
replace_chain_clears_pool(new_chain) ==
    /\ pc = "idle"
    /\ IF Len(new_chain) <= Len(chain) \/ ~is_chain_valid(new_chain)
       THEN /\ last' = [op |-> "replace_chain", ret |-> FALSE]
            /\ UNCHANGED <<chain, pending_transactions>>
       ELSE /\ chain' = new_chain
            /\ pending_transactions' = <<>>
            /\ last' = [op |-> "replace_chain", ret |-> TRUE]
    /\ entry' = [chain |-> chain, pool |-> pending_transactions, address |-> ""]
    /\ UNCHANGED <<difficulty, mining_reward, clock, pc, new_block, accepted, arg>>

\* Blockchain.replace_chain(new_chain)
replace_chain(new_chain) ==
    /\ pc = "idle"
    /\ IF Len(new_chain) <= Len(chain)
       THEN /\ last' = [op |-> "replace_chain", ret |-> FALSE]
            /\ UNCHANGED chain
       ELSE IF ~is_chain_valid(new_chain)
       THEN /\ last' = [op |-> "replace_chain", ret |-> FALSE]
            /\ UNCHANGED chain
       ELSE /\ chain' = new_chain
            /\ last' = [op |-> "replace_chain", ret |-> TRUE]
    /\ entry' = [chain |-> chain, pool |-> pending_transactions, address |-> ""]
    /\ UNCHANGED <<pending_transactions, difficulty, mining_reward, clock, pc, new_block,
                   accepted, arg>>

ReplaceChain == \E t \in {clock} : \E new_chain \in Candidates(t) : replace_chain(new_chain)

Next == AddTransaction \/ MinePendingTransactions \/ ReplaceChain

Spec == Init /\ [][Next]_vars

\* the mining loop runs on: the interpreter keeps executing the caller's thread
FairSpec == Spec /\ WF_vars(MineStep) /\ WF_vars(MineReturn)

\* ------------------------------------------------------------------ add and mine only
\* A Ledger whose callers only add, mine and query (no replace_chain): the callers
\* submit any transaction, reserved senders and amounts <= 0 included, and any
\* reward address.
LedgerRewards == {0, 2}
LedgerTxInputs == (Users \X Recipients \X Amounts) \cup (Reserved \X {"alice"} \X Amounts)
RewardAddresses == Miners \cup {"MINING_REWARD"}
Addresses == {"", "alice", "bob", "GENESIS", "MINING_REWARD"}

\* Blockchain.__init__
LedgerInit ==
    \E d \in Difficulties, r \in LedgerRewards, t1 \in {1}, t2 \in {1} :
        /\ difficulty = d
        /\ mining_reward = r
        /\ pending_transactions = <<>>
        /\ chain = <<create_genesis_block(d, t1, t2)>>
        /\ clock = t2
        /\ pc = "idle"
        /\ new_block = create_genesis_block(d, t1, t2)
        /\ last = [op |-> "init", ret |-> TRUE]
        /\ entry = [chain |-> <<>>, pool |-> <<>>, address |-> ""]
        /\ accepted = <<>>
        /\ arg = <<>>

\* the single caller builds any Transaction and submits it
LedgerAddTransaction ==
    /\ pc = "idle"
    /\ Len(accepted) + Len(chain) - 1 < MaxLedgerOps
    /\ UNCHANGED clock
    /\ \E i \in LedgerTxInputs, now \in {clock} :
          add_transaction(Transaction(i[1], i[2], i[3], 0, now))

LedgerMineStart ==
    /\ Len(accepted) + Len(chain) - 1 < MaxLedgerOps
    /\ \E addr \in RewardAddresses, t1 \in {clock}, t2 \in {clock} :
          MineStart(addr, t1, t2)

\* a call of Blockchain.is_chain_valid()
IsChainValid ==
    /\ pc = "idle"
    /\ last' = [op |-> "is_chain_valid", ret |-> is_chain_valid(chain)]
    /\ entry' = [chain |-> chain, pool |-> pending_transactions, address |-> ""]
    /\ UNCHANGED <<chain, pending_transactions, difficulty, mining_reward, clock, pc,
                   new_block, accepted, arg>>

\* a call of Blockchain.get_balance(address)
GetBalance ==
    /\ pc = "idle"
    /\ \E address \in Miners :
          /\ last' = [op |-> "get_balance", ret |-> get_balance(address)]
          /\ entry' = [chain |-> chain, pool |-> pending_transactions, address |-> address]
    /\ UNCHANGED <<chain, pending_transactions, difficulty, mining_reward, clock, pc,
                   new_block, accepted, arg>>

LedgerNext ==
    \/ LedgerAddTransaction
    \/ LedgerMineStart
    \/ MineStep
    \/ MineReturn
    \/ MineAppend
    \/ MineClear
    \/ IsChainValid
    \/ GetBalance

LedgerSpec == LedgerInit /\ [][LedgerNext]_vars

\* ------------------------------------------------------------------ two callers
\* One caller mines while a second caller submits transactions with no lock between
\* them: a call of add_transaction runs at any point of mine_pending_transactions
\* (between its reading of the pool, the search, the append and the clearing).
ConcurrentTxInputs == {<<"MINING_REWARD", "alice", 1>>} \cup ({"alice"} \X {"alice", "bob"} \X {1})

ConcurrentAddTransaction ==
    /\ Len(accepted) + Len(chain) - 1 < MaxLedgerOps
    /\ UNCHANGED clock
    /\ \E i \in ConcurrentTxInputs, now \in {clock} :
          add_transaction(Transaction(i[1], i[2], i[3], 0, now))

ConcurrentNext ==
    \/ ConcurrentAddTransaction
    \/ LedgerMineStart
    \/ MineStep
    \/ MineReturn
    \/ MineAppend
    \/ MineClear

ConcurrentSpec == LedgerInit /\ [][ConcurrentNext]_vars

\* ------------------------------------------------------------------ pure functions
\* Calls of Block.calculate_merkle_root and of Block.from_dict(b.to_dict()) on
\* transaction lists of every length up to MaxSeq. The Transaction objects of the
\* lists differ in their timestamp field, which holds any value, 0 included.
FieldTimestamps == {0, 1}
LoadTimes == {1, 2}
ListTransactions ==
    {[Transaction("alice", "bob", 1, 1, 1) EXCEPT !.timestamp = ts] : ts \in FieldTimestamps}
TransactionLists == UNION {[1..n -> ListTransactions] : n \in 0..MaxSeq}

PureInit ==
    \E d \in Difficulties, txs \in TransactionLists :
        /\ difficulty = d
        /\ mining_reward = 0
        /\ pending_transactions = <<>>
        /\ chain = <<create_genesis_block(d, 1, 1)>>
        /\ clock = 1
        /\ pc = "idle"
        /\ new_block = create_genesis_block(d, 1, 1)
        /\ last = [op |-> "init", ret |-> TRUE]
        /\ entry = [chain |-> <<>>, pool |-> <<>>, address |-> ""]
        /\ accepted = <<>>
        /\ arg = txs

\* calculate_merkle_root of a block holding the list arg, and of a block holding arg
\* followed by one more copy of its last transaction
CalculateMerkleRoot ==
    /\ Len(arg) >= 1
    /\ last' = [op |-> "calculate_merkle_root",
                ret |-> <<calculate_merkle_root(arg),
                          calculate_merkle_root(Append(arg, arg[Len(arg)]))>>]
    /\ UNCHANGED <<chain, pending_transactions, difficulty, mining_reward, clock, pc,
                   new_block, entry, accepted, arg>>

\* a block is built from arg and mined as the Ledger does it, then
\* Block.from_dict(new_block.to_dict()) is called when the clock reads now
RoundTrip ==
    /\ \E index \in {0, 1}, timestamp \in FieldTimestamps, now \in LoadTimes :
          LET b == mine_block(Block(index, timestamp, arg, ZeroHash, 0, difficulty),
                              difficulty)
          IN  /\ new_block' = b
              /\ last' = [op |-> "from_dict", ret |-> from_dict(to_dict(b), now)]
    /\ UNCHANGED <<chain, pending_transactions, difficulty, mining_reward, clock, pc,
                   entry, accepted, arg>>

PureNext == CalculateMerkleRoot \/ RoundTrip

PureSpec == PureInit /\ [][PureNext]_vars

\* ------------------------------------------------------------------ claims
\* C1: in every reachable state the chain is non-empty and every block after the
\* first stores, as previous_hash, the stored hash of the block before it.
C1_ChainLinked ==
    /\ Len(chain) >= 1
    /\ \A i \in 2..Len(chain) : chain[i].previous_hash = chain[i - 1].hash

\* a chain that replace_chain accepted
C1_Witness ==
    /\ pc = "idle" /\ last.op = "replace_chain" /\ last.ret = TRUE
    /\ Len(chain) >= 2
    /\ chain[2].previous_hash = chain[1].hash

\* C2: chain[i].index == i at every position of the chain, the first included
\* (positions count from 0 in the code, from 1 here).
C2_IndexIsPosition == \A i \in 1..Len(chain) : chain[i].index = i - 1

\* C3: every block after the first has a stored hash that starts with as many '0'
\* as the Ledger's difficulty.
C3_ProofOfWork == \A i \in 2..Len(chain) : StartsWithZeros(chain[i].hash, difficulty)

\* the chain validity check as the specification words it: non-empty, and every
\* block after the first has its stored hash and Merkle root equal to the recomputed
\* ones, the difficulty prefix it requires, the stored hash of its predecessor as
\* previous_hash and the predecessor's index plus one
FullyValid(c) ==
    /\ Len(c) > 0
    /\ \A i \in 2..Len(c) :
        /\ c[i].hash = hash_block(c[i])
        /\ c[i].merkle_root = calculate_merkle_root(c[i].transactions)
        /\ c[i].hash.lz >= c[i].difficulty
        /\ c[i].previous_hash = c[i - 1].hash
        /\ c[i].index = c[i - 1].index + 1

\* what C4 says of a step replace_chain(new_chain)
C4_Post(new_chain) ==
    /\ last'.ret = (Len(new_chain) > Len(chain) /\ FullyValid(new_chain))
    /\ last'.ret => /\ chain' = new_chain
                    /\ chain'[Len(chain')] = new_chain[Len(new_chain)]
    /\ ~last'.ret => chain' = chain

C5_Post ==
    /\ pending_transactions' = pending_transactions
    /\ difficulty' = difficulty
    /\ mining_reward' = mining_reward
    /\ last'.ret = FALSE => chain' = chain

\* C5: a replace_chain that returns false leaves chain, pending_transactions,
\* difficulty and mining_reward as they were; one that returns true changes the chain
\* only.
C5_ReplaceFrame ==
    [][(pc = "idle" /\ pc' = "idle" /\ last'.op = "replace_chain") => C5_Post]_vars

\* replace_chain refused a candidate while transactions were pending
C5_Witness ==
    /\ pc = "idle" /\ last.op = "replace_chain" /\ last.ret = FALSE
    /\ Len(pending_transactions) > 0
    /\ chain = entry.chain /\ pending_transactions = entry.pool

\* what C6 says of a step add_transaction(tx)
C6_Post(tx) ==
    IF \/ tx.amount <= 0
       \/ tx.sender = ""
       \/ tx.recipient = ""
       \/ tx.sender = tx.recipient
       \/ get_balance(tx.sender) < tx.amount
    THEN /\ last'.ret = FALSE
         /\ pending_transactions' = pending_transactions
         /\ chain' = chain
    ELSE /\ last'.ret = TRUE
         /\ pending_transactions' = Append(pending_transactions, tx)
         /\ chain' = chain

\* C6: add_transaction(tx) with a sender that is not reserved returns false and
\* changes neither pool nor chain when amount <= 0, or sender or recipient is empty,
\* or sender = recipient, or get_balance(sender) < amount; otherwise it returns true
\* and appends tx to the pool. (From no reachable state does such a call end
\* otherwise.)
C6_AddTransactionUser ==
    \A i \in TxInputs :
        LET tx == Transaction(i[1], i[2], i[3], 0, clock)
        IN  tx.sender \notin Reserved =>
                ~ENABLED (pc = "idle" /\ add_transaction(tx) /\ ~C6_Post(tx))

\* a transfer from an address with enough balance was accepted
C6_Witness ==
    /\ pc = "idle" /\ last.op = "add_transaction" /\ last.ret = TRUE
    /\ Len(pending_transactions) > 0
    /\ pending_transactions[Len(pending_transactions)].sender = "alice"

\* what C7 says of a step add_transaction(tx)
C7_Post(tx) ==
    /\ last'.ret = TRUE
    /\ pending_transactions' = Append(pending_transactions, tx)

\* C7: add_transaction(tx) with a reserved sender ("GENESIS" or "MINING_REWARD")
\* returns true and appends tx to the pool, whatever the amount and the state.
C7_ReservedAlwaysAccepted ==
    [][(pc = "idle" /\ pc' = "idle" /\ last'.op = "add_transaction") =>
        \A i \in TxInputs :
          LET tx == Transaction(i[1], i[2], i[3], 0, clock)
          IN  (tx.sender \in Reserved /\ add_transaction(tx)) => C7_Post(tx)]_vars

\* C8: when mine_pending_transactions(addr) returns, the chain is the chain at entry
\* plus one block; that block has the entry chain's length as index, the hash of the
\* entry chain's last block as previous_hash, and as transactions the reward
\* transaction MINING_REWARD -> addr of amount mining_reward followed by the pool at
\* entry, in order; the pool is empty.
C8_MineAppendsOneBlock ==
    (pc = "idle" /\ last.op = "mine_pending_transactions") =>
        /\ chain = Append(entry.chain, last.ret)
        /\ last.ret.index = Len(entry.chain)
        /\ last.ret.previous_hash = entry.chain[Len(entry.chain)].hash
        /\ last.ret.transactions =
              <<[sender |-> "MINING_REWARD", recipient |-> entry.address,
                 amount |-> mining_reward, timestamp |-> clock,
                 signature |-> NoSignature]>> \o entry.pool
        /\ pending_transactions = <<>>

\* a pool of two transactions was mined into one block
C8_Witness ==
    /\ pc = "idle" /\ last.op = "mine_pending_transactions"
    /\ Len(entry.pool) = 2
    /\ entry.pool[1] # entry.pool[2]
    /\ Len(chain[Len(chain)].transactions) = 3

\* C9: mine_block(d) terminates; when it returns the stored hash is the hash of the
\* block with its final nonce and starts with d zeros; each iteration adds 1 to the
\* nonce; with d = 0 no iteration runs and nonce and hash stay as constructed.
C9_MineBlock ==
    /\ (pc = "mine_block") ~> (pc = "append")
    /\ [](pc = "append" =>
            /\ new_block.hash = hash_block(new_block)
            /\ new_block.hash.lz >= difficulty)
    /\ [][(pc = "mine_block" /\ pc' = "mine_block" /\ new_block' # new_block) =>
            new_block'.nonce = new_block.nonce + 1]_vars
    /\ []((difficulty = 0 /\ pc \in {"mine_block", "append"}) =>
            /\ new_block.nonce = 0
            /\ new_block = Block(new_block.index, new_block.timestamp,
                                 new_block.transactions, new_block.previous_hash, 0, 0))

\* mine_block returned after at least one iteration
C9_Witness == pc = "append" /\ new_block.nonce > 0 /\ difficulty > 0

\* C10: the genesis block made at construction passes is_valid() with no
\* predecessor, whatever the Ledger's difficulty.
C10_GenesisValid == last.op = "init" => is_valid_alone(chain[1])

\* C11: is_chain_valid() is true in every state that add_transaction and
\* mine_pending_transactions reach from a fresh Ledger (inside a call as well as
\* between calls), and a call of it returns true and leaves chain and pool as they
\* were.
C11_UntouchedChainValid ==
    /\ is_chain_valid(chain)
    /\ (pc = "idle" /\ last.op = "is_chain_valid") =>
            /\ last.ret = TRUE
            /\ chain = entry.chain
            /\ pending_transactions = entry.pool

\* is_chain_valid() was called on a chain of three blocks, one of them holding a
\* submitted transaction and one mined with more than one try
C11_Witness ==
    /\ pc = "idle" /\ last.op = "is_chain_valid" /\ last.ret = TRUE
    /\ Len(chain) = 3
    /\ \E i \in 2..3 : Len(chain[i].transactions) > 1
    /\ \E i \in 2..3 : chain[i].nonce > 0

\* the chain c with the amount of transaction j of block i changed by delta, nothing
\* recomputed
Tamper(c, i, j, delta) == [c EXCEPT ![i].transactions[j].amount = @ + delta]

TamperDeltas == {-1, 1}

\* C12 as stated: on a mined chain, changing the amount of any transaction of any
\* stored block, the genesis block included, makes is_chain_valid() false.
C12_TamperAnyBlockDetected ==
    (pc = "idle" /\ Len(chain) >= 2) =>
        \A i \in 1..Len(chain) : \A j \in 1..Len(chain[i].transactions) :
            \A delta \in TamperDeltas : ~is_chain_valid(Tamper(chain, i, j, delta))

\* C12 as amended: changing the amount of any transaction of any stored block other
\* than the genesis block makes is_chain_valid() false.
C12_TamperLaterBlockDetected ==
    pc = "idle" =>
        \A i \in 2..Len(chain) : \A j \in 1..Len(chain[i].transactions) :
            \A delta \in TamperDeltas : ~is_chain_valid(Tamper(chain, i, j, delta))

\* a chain with a middle block and a last block, the middle one holding a submitted
\* transaction besides the reward
C12_Witness ==
    /\ pc = "idle"
    /\ Len(chain) = 3
    /\ Len(chain[2].transactions) = 2
    /\ is_chain_valid(chain)
    /\ ~is_chain_valid(Tamper(chain, 2, 2, 1))
    /\ ~is_chain_valid(Tamper(chain, 3, 1, 1))

RECURSIVE AllTransactions(_, _)
\* the transactions of the blocks of c from position i on, in chain order
AllTransactions(c, i) ==
    IF i > Len(c) THEN <<>> ELSE c[i].transactions \o AllTransactions(c, i + 1)

RECURSIVE SumOfAmounts(_)
SumOfAmounts(txs) == IF txs = <<>> THEN 0 ELSE Head(txs).amount + SumOfAmounts(Tail(txs))

\* the transactions of txs received by a, and those sent by a
ReceivedBy(txs, a) == LET To(t) == t.recipient = a IN SelectSeq(txs, To)
SentBy(txs, a) == LET From(t) == t.sender = a IN SelectSeq(txs, From)

\* C13: for every address a, get_balance(a) is the amounts a received in the chain,
\* minus the amounts a sent in the chain, minus the amounts a sends in the pool (what
\* a receives in the pool is not counted); a call of get_balance returns that value
\* and leaves chain and pool as they were.
C13_BalanceIsSum ==
    /\ \A a \in Addresses :
          get_balance(a) = SumOfAmounts(ReceivedBy(AllTransactions(chain, 1), a))
                             - SumOfAmounts(SentBy(AllTransactions(chain, 1), a))
                             - SumOfAmounts(SentBy(pending_transactions, a))
    /\ (pc = "idle" /\ last.op = "get_balance") =>
            /\ last.ret = get_balance(entry.address)
            /\ chain = entry.chain
            /\ pending_transactions = entry.pool

\* get_balance was called for an address that has mined rewards, a pending payment
\* to make and a pending amount to receive
C13_Witness ==
    /\ pc = "idle" /\ last.op = "get_balance"
    /\ SumOfAmounts(ReceivedBy(AllTransactions(chain, 1), entry.address)) > 0
    /\ SumOfAmounts(SentBy(pending_transactions, entry.address)) > 0
    /\ SumOfAmounts(ReceivedBy(pending_transactions, entry.address)) > 0

\* the reward transaction mine_pending_transactions(address) builds
RewardTransaction(address) ==
    [sender |-> "MINING_REWARD", recipient |-> address, amount |-> mining_reward,
     timestamp |-> clock, signature |-> NoSignature]

\* a Ledger as constructed: the genesis block only, nothing pending, no call under way
FreshLedger == pc = "idle" /\ Len(chain) = 1 /\ pending_transactions = <<>> /\ accepted = <<>>

\* mine_pending_transactions(X) has returned from a call made on a fresh Ledger
MinedOnFresh ==
    /\ pc = "idle" /\ last.op = "mine_pending_transactions"
    /\ Len(entry.chain) = 1 /\ entry.pool = <<>> /\ accepted = <<>>

\* C14 as stated: on a fresh Ledger add_transaction of a positive amount from any
\* address (all have balance 0) returns false, and mine_pending_transactions(X) with an
\* empty pool appends a block holding the reward transaction only, after which
\* get_balance(X) is the mining reward, for every X.
C14_FreshLedgerAnyAddress ==
    /\ FreshLedger =>
          \A i \in LedgerTxInputs :
              LET tx == Transaction(i[1], i[2], i[3], 0, clock)
              IN  (tx.amount > 0 /\ get_balance(tx.sender) = 0) =>
                      ~ENABLED (add_transaction(tx) /\ last'.ret # FALSE)
    /\ MinedOnFresh =>
          /\ chain = Append(entry.chain, last.ret)
          /\ last.ret.transactions = <<RewardTransaction(entry.address)>>
          /\ get_balance(entry.address) = mining_reward

\* C14 as amended: the same, for a sender that is not a reserved identifier and a
\* reward address X other than "MINING_REWARD".
C14_FreshLedgerUserAddress ==
    /\ FreshLedger =>
          \A i \in LedgerTxInputs :
              LET tx == Transaction(i[1], i[2], i[3], 0, clock)
              IN  (tx.amount > 0 /\ get_balance(tx.sender) = 0 /\ tx.sender \notin Reserved) =>
                      ~ENABLED (add_transaction(tx) /\ last'.ret # FALSE)
    /\ MinedOnFresh =>
          /\ chain = Append(entry.chain, last.ret)
          /\ last.ret.transactions = <<RewardTransaction(entry.address)>>
          /\ entry.address # "MINING_REWARD" => get_balance(entry.address) = mining_reward

\* a fresh Ledger with a positive reward was mined for alice, who now owns the reward
C14_Witness ==
    /\ MinedOnFresh
    /\ entry.address = "alice"
    /\ mining_reward > 0
    /\ Len(chain) = 2
    /\ get_balance("alice") = mining_reward

\* C15 as stated: for every non-empty list S, length 1 included, the Merkle root of
\* S followed by a copy of its last transaction equals the root of S when Len(S) is
\* odd and differs from it when Len(S) is even.
C15_DuplicateLastByParity ==
    last.op = "calculate_merkle_root" =>
        /\ Len(arg) % 2 = 1 => last.ret[2] = last.ret[1]
        /\ Len(arg) % 2 = 0 => last.ret[2] # last.ret[1]

\* C15 as amended: the two roots are equal when Len(S) is odd and at least 3; they
\* differ when Len(S) is 1, and when Len(S) is even and the last two transactions of
\* S are different.
C15_DuplicateLastAmended ==
    last.op = "calculate_merkle_root" =>
        /\ (Len(arg) % 2 = 1 /\ Len(arg) >= 3) => last.ret[2] = last.ret[1]
        /\ Len(arg) = 1 => last.ret[2] # last.ret[1]
        /\ (Len(arg) % 2 = 0 /\ arg[Len(arg) - 1] # arg[Len(arg)]) =>
                last.ret[2] # last.ret[1]

\* the roots were computed for a list of five transactions that are not all equal
C15_Witness ==
    /\ last.op = "calculate_merkle_root"
    /\ Len(arg) = 5
    /\ arg[4] # arg[5]
    /\ last.ret[1] = calculate_merkle_root(arg)
    /\ last.ret[2] = last.ret[1]

C17_AppendOnly ==
    [][/\ Len(chain') >= Len(chain)
       /\ SubSeq(chain', 1, Len(chain)) = chain]_vars

\* two blocks were mined one after the other onto the genesis block
C17_Witness ==
    /\ pc = "idle" /\ last.op = "mine_pending_transactions"
    /\ Len(chain) = 3
    /\ SubSeq(chain, 1, 2) = entry.chain
    /\ chain[1] = create_genesis_block(difficulty, clock, clock)

RECURSIVE SubmittedTransactions(_, _)
\* the transactions of the blocks of c from position i on, the reward transaction
\* that comes first in each block left out
SubmittedTransactions(c, i) ==
    IF i > Len(c) THEN <<>> ELSE Tail(c[i].transactions) \o SubmittedTransactions(c, i + 1)

\* the transactions of the calls of add_transaction that returned True, in call order
AcceptedTransactions == [k \in 1..Len(accepted) |-> accepted[k].tx]

InPool(tx) == \E j \in 1..Len(pending_transactions) : pending_transactions[j] = tx

\* the blocks that hold tx among their submitted transactions (the transaction a
\* block starts with is the Ledger's own: the genesis or the reward transaction)
BlocksHolding(tx) ==
    {i \in 2..Len(chain) : \E j \in 2..Len(chain[i].transactions) : chain[i].transactions[j] = tx}

\* what the calls leave when they return: add_transaction appends to the pool or,
\* returning False, changes nothing; mine_pending_transactions empties the pool into
\* the new block; the queries change nothing
C18_Calls ==
    /\ last.op = "add_transaction" =>
          /\ chain = entry.chain
          /\ last.ret = TRUE =>
                /\ Len(pending_transactions) = Len(entry.pool) + 1
                /\ SubSeq(pending_transactions, 1, Len(entry.pool)) = entry.pool
          /\ last.ret = FALSE => pending_transactions = entry.pool
    /\ last.op = "mine_pending_transactions" =>
          /\ pending_transactions = <<>>
          /\ Tail(chain[Len(chain)].transactions) = entry.pool
    /\ last.op \in {"is_chain_valid", "get_balance"} =>
          chain = entry.chain /\ pending_transactions = entry.pool

\* C18 as stated: between the calls, every transaction for which add_transaction
\* returned true is either in the pool and in no block, or in exactly one block and
\* not in the pool; it leaves the pool at a mine_pending_transactions only, and a
\* call that returned false changed neither pool nor chain.
C18_LifecycleByTransaction ==
    pc = "idle" =>
        /\ \A k \in 1..Len(accepted) :
              \/ InPool(accepted[k].tx) /\ BlocksHolding(accepted[k].tx) = {}
              \/ ~InPool(accepted[k].tx) /\ Cardinality(BlocksHolding(accepted[k].tx)) = 1
        /\ C18_Calls

\* C18 as amended: each call of add_transaction that returned true counts as a
\* transaction of its own (the same transaction may be submitted again). Between the
\* calls the accepted transactions, in call order, are exactly the submitted
\* transactions of the blocks followed by the pool: each accepted call has one place,
\* in the pool or in one block.
C18_LifecycleByCall ==
    pc = "idle" =>
        /\ AcceptedTransactions = SubmittedTransactions(chain, 2) \o pending_transactions
        /\ C18_Calls

\* one accepted transaction is in a block, a later one is in the pool
C18_Witness ==
    /\ pc = "idle"
    /\ Len(accepted) >= 2
    /\ SubmittedTransactions(chain, 2) # <<>>
    /\ pending_transactions # <<>>
    /\ BlocksHolding(accepted[1].tx) = {2}
    /\ ~InPool(accepted[1].tx)

\* the accepted calls of add_transaction made while no mine_pending_transactions
\* was under way
AcceptedOutsideMine ==
    LET Outside(a) == a.pc = "idle"
        kept == SelectSeq(accepted, Outside)
    IN  [k \in 1..Len(kept) |-> kept[k].tx]

\* C19: with two unserialized callers, when mine_pending_transactions has returned,
\* the accepted transactions that are in the blocks or in the pool are exactly those
\* accepted outside a mine_pending_transactions: every transaction accepted between
\* mine's reading of the pool and its clearing of the pool is lost, and no other is (in
\* a serialized run, where no call falls inside another, nothing is lost).
C19_LostIffInsideMine ==
    pc = "idle" =>
        AcceptedOutsideMine = SubmittedTransactions(chain, 2) \o pending_transactions

\* a transaction accepted while a block was being mined is in no block and not in
\* the pool
C19_Witness ==
    /\ pc = "idle"
    /\ \E k \in 1..Len(accepted) :
          /\ accepted[k].pc # "idle"
          /\ ~InPool(accepted[k].tx)
          /\ BlocksHolding(accepted[k].tx) = {}

\* C20: with a mining reward >= 0, no address other than "GENESIS" and
\* "MINING_REWARD" ever has a negative balance, whatever transactions are submitted.
C20_NoOverspending ==
    mining_reward >= 0 =>
        \A a \in Addresses \ Reserved : get_balance(a) >= 0

====
